---- MODULE Spec2Model ----
(***************************************************************************)
(* Model of fakernaija's Degree mixin (mixins/degree_mixin.py) and of the  *)
(* helpers of utils.py: the unique-value selector, the JSON structure      *)
(* validation and the JSON loader.                                         *)
(***************************************************************************)
EXTENDS Integers, Sequences, FiniteSets, TLC

(***************************************************************************)
(* Bounds of the model.                                                    *)
(***************************************************************************)
\* largest number of records the degree data set holds
MaxRecords == 3
\* longest run of same-argument degree() calls whose results are recorded
MaxRun == 6
\* longest values list handed to the selector on its own
MaxPool == 3
\* largest number of entries of a JSON file
MaxEntries == 2
\* longest required_keys list
MaxRequired == 2
\* largest number of records of the data set two instances draw from
MaxSharedRecords == 2

(***************************************************************************)
(* Values.                                                                 *)
(***************************************************************************)
\* Python's None, as the default of degree_type
None == "<None>"
\* placeholder of a result field when the call produced no value
NoValue == "<no value>"

\* the list of line 51 of degree_mixin.py
DegreeTypes == {"undergraduate", "masters", "doctorate"}

\* degree_type arguments a caller passes: the default, the recognized ones,
\* the empty string and an unrecognized word
FilterInputs == {None} \cup DegreeTypes \cup {"", "phd"}

\* records a degree data set is made of; two of them share an initial
Catalog ==
  { [degree_type |-> "undergraduate", name |-> "Bachelor of Science", initial |-> "B.Sc."],
    [degree_type |-> "masters",       name |-> "Master of Arts",      initial |-> "M.A."],
    [degree_type |-> "masters",       name |-> "Magister Artium",     initial |-> "M.A."],
    [degree_type |-> "doctorate",     name |-> "Doctor of Philosophy", initial |-> "Ph.D."] }

\* values of selector calls made on their own
SelValues == {"A", "B", "C"}

\* keys of JSON entries
Keys == {"name", "initial", "degree_type"}

SeqsUpTo(S, n) == UNION {[1..k -> S] : k \in 0..n}

\* Python's set(values)
SetOf(values) == {values[i] : i \in 1..Len(values)}

\* Python's truth value of a str | None argument
Truthy(s) == s # None /\ s # ""

Distinct(s) == \A i, j \in 1..Len(s) : i # j => s[i] # s[j]

(***************************************************************************)
(* State.                                                                  *)
(***************************************************************************)
VARIABLES
  degrees,        \* the records held by the instance's DegreeProvider
  _used_degrees,  \* Degree._used_degrees
  last,           \* history: the last degree() call and its outcome
  used_before,    \* history: _used_degrees when the last call began
  avail,          \* history: the set the last returned value was chosen from
  run,            \* history: the arguments of a run of same-argument calls
  rets,           \* history: the values returned by the calls of that run
  watch,          \* history: the category whose own used-set is followed
  ghost,          \* history: the used-set that category would have on its own
  ghost_before    \* history: ghost before the last call of that category

dvars == <<degrees, _used_degrees, last, used_before, avail, run, rets, watch, ghost, ghost_before>>

VARIABLES
  sel_values,       \* the values argument of the selector
  sel_used,         \* the used_values argument of the selector, a mutable set
  sel_last,         \* history: the last selector call and its outcome
  sel_used_before,  \* history: used_values when the last selector call began
  sel_avail         \* history: the set the last selector call chose from

svars == <<sel_values, sel_used, sel_last, sel_used_before, sel_avail>>

VARIABLES
  source,         \* the JSON file at file_path
  required_keys,  \* the required_keys argument
  load_last       \* history: the last utils call and its outcome

lvars == <<source, required_keys, load_last>>

VARIABLES
  sets,        \* the set objects made by the constructions, by address
  used_ref,    \* for each Degree instance, the address _used_degrees holds
  two_last,    \* history: the instance and the outcome of the last call
  two_before   \* history: the used-sets of the other instances before it

tvars == <<sets, used_ref, two_last, two_before>>

vars == <<dvars, svars, lvars, tvars>>

Categories == [degree_type : {None} \cup DegreeTypes, initial : BOOLEAN]

(***************************************************************************)
(* DegreeProvider: the candidate sequences handed to the selector.         *)
(***************************************************************************)
Matching(degree_type) ==
  SelectSeq(degrees, LAMBDA d : degree_type = None \/ d.degree_type = degree_type)

get_degrees(degree_type) ==
  LET m == Matching(degree_type) IN [i \in 1..Len(m) |-> m[i].name]

get_degree_initials(degree_type) ==
  LET m == Matching(degree_type) IN [i \in 1..Len(m) |-> m[i].initial]

(***************************************************************************)
(* Degree._get_unique_value, lines 77-86: the set the value is chosen from *)
(* and the content of used_values when random.choice is reached.           *)
(***************************************************************************)
\* a selector that forgets to take the used values out
available_ignoring_used(values, used_values) == SetOf(values)

_get_unique_value_available(values, used_values) ==
  LET available_values == SetOf(values) \ used_values
  IN  IF available_values = {} THEN SetOf(values) ELSE available_values

\* a selector that never resets the used values
used_never_cleared(values, used_values) == used_values

_get_unique_value_used(values, used_values) ==
  LET available_values == SetOf(values) \ used_values
  IN  IF available_values = {} THEN {} ELSE used_values

\* a caller that forgets to record the returned value
add_skipped(used_values, value) == used_values

\* line 60: self._used_degrees.add(degree)
add(used_values, value) == used_values \cup {value}

\* the candidate sequence of a degree() call, lines 55-58
Candidates(degree_type, initial) ==
  IF initial THEN get_degree_initials(degree_type) ELSE get_degrees(degree_type)

\* line 51: the condition under which degree() raises ValueError
InvalidDegreeType(degree_type) ==
  Truthy(degree_type) /\ degree_type \notin DegreeTypes

NoCall ==
  [degree_type |-> None, initial |-> FALSE, outcome |-> "none", ret |-> NoValue,
   reset |-> FALSE, invoked |-> FALSE]

(***************************************************************************)
(* Degree.__init__, lines 13-14, with a data set loaded by the provider.   *)
(***************************************************************************)
DegreeInit ==
  /\ degrees \in SeqsUpTo(Catalog, MaxRecords)
  /\ _used_degrees = {}
  /\ last = NoCall

(***************************************************************************)
(* Degree.degree, lines 51-61.                                             *)
(***************************************************************************)
degree(degree_type, initial) ==
  LET call == [NoCall EXCEPT !.degree_type = degree_type, !.initial = initial]
  IN
  IF InvalidDegreeType(degree_type)
    THEN /\ last' = [call EXCEPT !.outcome = "ValueError"]
         /\ UNCHANGED <<degrees, _used_degrees>>
    ELSE LET values == Candidates(degree_type, initial)
             available_values == _get_unique_value_available(values, _used_degrees)
             used_values == _get_unique_value_used(values, _used_degrees)
             cleared == SetOf(values) \ _used_degrees = {}
         IN  IF available_values = {}
               THEN \* random.choice of an empty list raises IndexError
                    /\ _used_degrees' = used_values
                    /\ last' = [call EXCEPT !.outcome = "IndexError",
                                            !.invoked = TRUE, !.reset = cleared]
                    /\ UNCHANGED degrees
               ELSE \E v \in available_values :
                    /\ _used_degrees' = add(used_values, v)
                    /\ last' = [call EXCEPT !.outcome = "ok", !.ret = v,
                                            !.invoked = TRUE, !.reset = cleared]
                    /\ UNCHANGED degrees

(***************************************************************************)
(* utils.get_unique_value, lines 78-87: the set the value is chosen from   *)
(* and the content of used_values when random.choice is reached.           *)
(***************************************************************************)
\* a selector that, on exhaustion, draws from the used values
available_from_used(values, used_values) ==
  LET available_values == SetOf(values) \ used_values
  IN  IF available_values = {} THEN used_values ELSE available_values

\* a selector that takes the pool for exhausted by the length of the list
available_by_count(values, used_values) ==
  LET available_values == SetOf(values) \ used_values
  IN  IF Cardinality(used_values \cap SetOf(values)) >= Len(values)
        THEN SetOf(values) ELSE available_values

get_unique_value_available(values, used_values) ==
  LET available_values == SetOf(values) \ used_values
  IN  IF available_values = {} THEN SetOf(values) ELSE available_values

\* a selector that clears the used values on every call
used_always_cleared(values, used_values) == {}

get_unique_value_used(values, used_values) ==
  LET available_values == SetOf(values) \ used_values
  IN  IF available_values = {} THEN {} ELSE used_values

NoSelCall == [fn |-> "none", outcome |-> "none", ret |-> NoValue]

SelIdle ==
  /\ sel_values = << >> /\ sel_used = {}
  /\ sel_last = NoSelCall /\ sel_used_before = {} /\ sel_avail = {}

\* the outcome of a selector call: the new used_values, and the value
\* random.choice returns or the IndexError it raises on an empty list
Selected(fn, available_values, used_values) ==
  /\ sel_used_before' = sel_used
  /\ sel_used' = used_values
  /\ sel_avail' = available_values
  /\ IF available_values = {}
       THEN sel_last' = [fn |-> fn, outcome |-> "IndexError", ret |-> NoValue]
       ELSE \E v \in available_values :
              sel_last' = [fn |-> fn, outcome |-> "ok", ret |-> v]
  /\ UNCHANGED sel_values

get_unique_value ==
  Selected("get_unique_value",
           get_unique_value_available(sel_values, sel_used),
           get_unique_value_used(sel_values, sel_used))

_get_unique_value ==
  Selected("_get_unique_value",
           _get_unique_value_available(sel_values, sel_used),
           _get_unique_value_used(sel_values, sel_used))

(***************************************************************************)
(* utils.validate_json_structure and utils.load_json.  An entry of the     *)
(* decoded JSON is a mapping with a set of keys, or a value of another     *)
(* JSON type, which has no keys() method.                                  *)
(***************************************************************************)
Entries == [mapping : {TRUE}, keys : SUBSET Keys]
             \cup {[mapping |-> FALSE, keys |-> {}]}

Sources == {[kind |-> "missing", data |-> << >>],
            [kind |-> "undecodable", data |-> << >>]}
             \cup [kind : {"json"}, data : SeqsUpTo(Entries, MaxEntries)]

RECURSIVE validate_missing_only(_, _)
\* a validation that forgets the check for extra keys
validate_missing_only(data, required) ==
  IF data = << >> THEN "ok"
  ELSE LET entry == Head(data) IN
       IF ~entry.mapping THEN "AttributeError"
       ELSE IF SetOf(required) \ entry.keys # {} THEN "ValueError"
       ELSE validate_missing_only(Tail(data), required)

RECURSIVE validate_json_structure(_, _)
validate_json_structure(data, required) ==
  IF data = << >> THEN "ok"
  ELSE LET entry == Head(data) IN
       IF ~entry.mapping THEN "AttributeError"
       ELSE LET entry_keys == entry.keys
                required_keys_set == SetOf(required)
                missing_keys == required_keys_set \ entry_keys
                invalid_keys == entry_keys \ required_keys_set
            IN  IF missing_keys # {} THEN "ValueError"
                ELSE IF invalid_keys # {} THEN "ValueError"
                ELSE validate_json_structure(Tail(data), required)

\* the outcome of load_json and the data it returns
load_json(src, required) ==
  IF src.kind = "missing"
    THEN [outcome |-> "FileNotFoundError", data |-> << >>]
  ELSE IF src.kind = "undecodable"
    THEN [outcome |-> "ValueError", data |-> << >>]
  ELSE LET v == validate_json_structure(src.data, required)
       IN  IF v = "ok" THEN [outcome |-> "returned", data |-> src.data]
           ELSE [outcome |-> v, data |-> << >>]

NoLoadCall == [fn |-> "none", outcome |-> "none", data |-> << >>]

LoadIdle ==
  /\ source = [kind |-> "missing", data |-> << >>]
  /\ required_keys = << >>
  /\ load_last = NoLoadCall

(***************************************************************************)
(* Several Degree instances: each construction (lines 13-14) makes a set   *)
(* object and stores its address in the instance's _used_degrees.          *)
(***************************************************************************)
Instances == {1, 2}

\* a class whose instances share one set object
shared_set(instance) == 1

\* line 14: set() makes a new object at every construction
new_set(instance) == instance

NoInstanceCall == [instance |-> 0, outcome |-> "none"]

TwoIdle ==
  /\ sets = << >> /\ used_ref = << >>
  /\ two_last = NoInstanceCall /\ two_before = << >>

\* the used-set of an instance
UsedSetOf(instance) == sets[used_ref[instance]]

\* Degree.degree, lines 51-61, called on the instance self
InstanceDegree(self, degree_type, initial) ==
  IF InvalidDegreeType(degree_type)
    THEN /\ two_last' = [instance |-> self, outcome |-> "ValueError"]
         /\ UNCHANGED sets
    ELSE LET values == Candidates(degree_type, initial)
             available_values == _get_unique_value_available(values, UsedSetOf(self))
             used_values == _get_unique_value_used(values, UsedSetOf(self))
         IN  IF available_values = {}
               THEN /\ sets' = [sets EXCEPT ![used_ref[self]] = used_values]
                    /\ two_last' = [instance |-> self, outcome |-> "IndexError"]
               ELSE \E v \in available_values :
                    /\ sets' = [sets EXCEPT ![used_ref[self]] = add(used_values, v)]
                    /\ two_last' = [instance |-> self, outcome |-> "ok"]

NoRun == [degree_type |-> None, initial |-> FALSE]
NoWatch == [degree_type |-> None, initial |-> FALSE]

\* the Degree part of the state where no Degree instance is followed
DegreeInitIdle ==
  /\ degrees = << >> /\ _used_degrees = {} /\ last = NoCall
  /\ used_before = {} /\ avail = {}
  /\ run = NoRun /\ rets = << >>
  /\ watch = NoWatch /\ ghost = {} /\ ghost_before = {}

(***************************************************************************)
(* Spec: one Degree instance, degree() called with any arguments.          *)
(***************************************************************************)
Init ==
  /\ DegreeInit /\ SelIdle /\ LoadIdle /\ TwoIdle
  /\ used_before = {} /\ avail = {}
  /\ run = NoRun /\ rets = << >>
  /\ watch = NoWatch /\ ghost = {} /\ ghost_before = {}

DegreeCall ==
  /\ \E degree_type \in FilterInputs, initial \in BOOLEAN :
        degree(degree_type, initial)
  /\ used_before' = _used_degrees
  /\ UNCHANGED <<avail, run, rets, watch, ghost, ghost_before, svars, lvars, tvars>>

Next == DegreeCall

Spec == Init /\ [][Next]_vars

(***************************************************************************)
(* SpecRun: consecutive degree() calls with the same arguments on a fresh  *)
(* instance, the returned values recorded in order.                        *)
(***************************************************************************)
RunInit ==
  /\ DegreeInit /\ SelIdle /\ LoadIdle /\ TwoIdle
  /\ used_before = {} /\ avail = {}
  /\ run \in [degree_type : FilterInputs, initial : BOOLEAN]
  /\ rets = << >>
  /\ watch = NoWatch /\ ghost = {} /\ ghost_before = {}

RunCall ==
  /\ Len(rets) < MaxRun
  /\ degree(run.degree_type, run.initial)
  /\ rets' = IF last'.outcome = "ok" THEN Append(rets, last'.ret) ELSE rets
  /\ avail' = IF last'.outcome = "ok"
                THEN _get_unique_value_available(
                       Candidates(run.degree_type, run.initial), _used_degrees)
                ELSE {}
  /\ UNCHANGED <<used_before, run, watch, ghost, ghost_before, svars, lvars, tvars>>

RunNext == RunCall

SpecRun == RunInit /\ [][RunNext]_vars

(***************************************************************************)
(* SpecCat: degree() called with any arguments, interleaved; next to the   *)
(* instance's used-set, the used-set one category would have if the        *)
(* selector ran on that category's calls alone.                            *)
(***************************************************************************)
CatInit ==
  /\ DegreeInit /\ SelIdle /\ LoadIdle /\ TwoIdle
  /\ used_before = {} /\ avail = {}
  /\ run = NoRun /\ rets = << >>
  /\ watch \in Categories /\ ghost = {} /\ ghost_before = {}

CatCall ==
  /\ \E c \in Categories :
        /\ degree(c.degree_type, c.initial)
        /\ IF c = watch /\ last'.outcome = "ok"
             THEN /\ ghost_before' = ghost
                  /\ ghost' = _get_unique_value_used(
                                 Candidates(c.degree_type, c.initial), ghost)
                               \cup {last'.ret}
             ELSE UNCHANGED <<ghost, ghost_before>>
  /\ UNCHANGED <<used_before, avail, run, rets, watch, svars, lvars, tvars>>

CatNext == CatCall

SpecCat == CatInit /\ [][CatNext]_vars

(***************************************************************************)
(* SpecSel: the selector called on its own, with any values list and any   *)
(* used_values set, through the function of utils.py and through the       *)
(* method of Degree.                                                       *)
(***************************************************************************)
SelInit ==
  /\ DegreeInitIdle /\ LoadIdle /\ TwoIdle
  /\ sel_values \in SeqsUpTo(SelValues, MaxPool)
  /\ sel_used \in SUBSET SelValues
  /\ sel_last = NoSelCall /\ sel_used_before = {} /\ sel_avail = {}

CallGetUniqueValue == get_unique_value /\ UNCHANGED <<dvars, lvars, tvars>>

CallDegreeGetUniqueValue == _get_unique_value /\ UNCHANGED <<dvars, lvars, tvars>>

SelNext == CallGetUniqueValue \/ CallDegreeGetUniqueValue

SpecSel == SelInit /\ [][SelNext]_vars

(***************************************************************************)
(* SpecLoad: validate_json_structure and load_json called on any source.   *)
(***************************************************************************)
LoadInit ==
  /\ DegreeInitIdle /\ SelIdle /\ TwoIdle
  /\ source \in Sources
  /\ required_keys \in SeqsUpTo(Keys, MaxRequired)
  /\ load_last = NoLoadCall

CallValidate ==
  /\ source.kind = "json"
  /\ load_last' = [fn |-> "validate_json_structure",
                   outcome |-> validate_json_structure(source.data, required_keys),
                   data |-> << >>]
  /\ UNCHANGED <<source, required_keys, dvars, svars, tvars>>

CallLoadJson ==
  /\ LET r == load_json(source, required_keys)
     IN  load_last' = [fn |-> "load_json", outcome |-> r.outcome, data |-> r.data]
  /\ UNCHANGED <<source, required_keys, dvars, svars, tvars>>

LoadNext == CallValidate \/ CallLoadJson

SpecLoad == LoadInit /\ [][LoadNext]_vars

(***************************************************************************)
(* SpecTwo: two Degree instances over the same data, degree() called on    *)
(* either with any arguments.                                              *)
(***************************************************************************)
TwoInit ==
  /\ degrees \in SeqsUpTo(Catalog, MaxSharedRecords)
  /\ _used_degrees = {} /\ last = NoCall
  /\ SelIdle /\ LoadIdle
  /\ used_before = {} /\ avail = {}
  /\ run = NoRun /\ rets = << >>
  /\ watch = NoWatch /\ ghost = {} /\ ghost_before = {}
  /\ used_ref = [i \in Instances |-> new_set(i)]
  /\ sets = [a \in Instances |-> {}]
  /\ two_last = NoInstanceCall
  /\ two_before = << >>

TwoCall ==
  /\ \E self \in Instances, degree_type \in FilterInputs, initial \in BOOLEAN :
        /\ InstanceDegree(self, degree_type, initial)
        /\ two_before' = [j \in Instances \ {self} |-> UsedSetOf(j)]
  /\ UNCHANGED <<used_ref, dvars, svars, lvars>>

TwoNext == TwoCall

SpecTwo == TwoInit /\ [][TwoNext]_vars

(***************************************************************************)
(* Properties of runs of same-argument calls (SpecRun).                    *)
(***************************************************************************)
RunPool == Candidates(run.degree_type, run.initial)

\* C1 as stated: with a candidate pool of N >= 2 entries and an empty
\* used-set at the start, the first N selections are pairwise distinct.
C1_DistinctOverPoolSize ==
  (Len(RunPool) >= 2 /\ Len(rets) <= Len(RunPool)) => Distinct(rets)

\* C1 amended: with a candidate pool of N >= 2 distinct values and an empty
\* used-set at the start, the first N selections are pairwise distinct.
C1_DistinctOverDistinctValues ==
  LET N == Cardinality(SetOf(RunPool))
  IN  (N >= 2 /\ Len(rets) <= N) => Distinct(rets)

C1_Witness ==
  LET N == Cardinality(SetOf(RunPool))
  IN  N >= 2 /\ Len(rets) = N /\ SetOf(rets) = SetOf(RunPool)

\* C2 as stated: after N selections from a pool of N entries, selection N+1
\* clears the used-set, chooses among all pool values, and leaves the
\* used-set holding exactly the value it returned.
C2_ResetAfterPoolSize ==
  LET N == Len(RunPool)
  IN  (N >= 1 /\ Len(rets) = N + 1)
        => /\ last.reset
           /\ avail = SetOf(RunPool)
           /\ _used_degrees = {last.ret}

\* C2 amended: after N selections from a pool of N distinct values,
\* selection N+1 clears the used-set, chooses among all pool values, and
\* leaves the used-set holding exactly the value it returned.
C2_ResetAfterDistinctValues ==
  LET N == Cardinality(SetOf(RunPool))
  IN  (N >= 1 /\ Len(rets) = N + 1)
        => /\ last.reset
           /\ avail = SetOf(RunPool)
           /\ _used_degrees = {last.ret}

\* selection N+1 repeats the value of selection N
C2_Witness ==
  LET N == Cardinality(SetOf(RunPool))
  IN  N >= 2 /\ Len(rets) = N + 1 /\ rets[N + 1] = rets[N]

(***************************************************************************)
(* Properties of interleaved calls (SpecCat).                              *)
(***************************************************************************)
WatchPool == Candidates(watch.degree_type, watch.initial)

\* C3: while the instance's used-set holds fewer values than a category's
\* pool, and the used-set the category would have on its own is not
\* exhausted either, a call of that category returns no value that the
\* category returned before in its current round (the category behaves as
\* if its used-set were its own).  Without a reset the used-set before the
\* call is the used-set after it less the returned value.
C3_PerCategoryNoRepeat ==
  (/\ last.outcome = "ok" /\ ~last.reset
   /\ last.degree_type = watch.degree_type /\ last.initial = watch.initial
   /\ Cardinality(_used_degrees \ {last.ret}) < Cardinality(SetOf(WatchPool))
   /\ SetOf(WatchPool) \ ghost_before # {})
    => last.ret \notin ghost_before

(***************************************************************************)
(* Properties of single degree() calls (Spec).                             *)
(***************************************************************************)
LastPool == Candidates(last.degree_type, last.initial)

\* C5: degree() raises ValueError exactly for the degree_type arguments that
\* are supplied (not None) and are no member of the enumeration.
C5_RejectsNonMembers ==
  last.outcome # "none"
    => (last.outcome = "ValueError"
          <=> (last.degree_type # None /\ last.degree_type \notin DegreeTypes))

\* C6: a degree() call whose candidate sequence is empty raises a
\* ValueError before the selector is invoked.
C6_EmptyPoolRejected ==
  (last.outcome # "none" /\ ~InvalidDegreeType(last.degree_type)
     /\ LastPool = << >>)
    => (last.outcome = "ValueError" /\ ~last.invoked)

\* C10: after a successful degree() call the returned value is in the
\* used-set; without a reset the used-set is the old one plus the returned
\* value, which is new to it; with a reset it is the singleton of the
\* returned value.
C10_UsedSetGrowth ==
  last.outcome = "ok"
    => /\ last.ret \in _used_degrees
       /\ IF last.reset
            THEN _used_degrees = {last.ret}
            ELSE /\ last.ret \notin used_before
                 /\ _used_degrees = used_before \cup {last.ret}
                 /\ Cardinality(_used_degrees) = Cardinality(used_before) + 1

C10_Witness ==
  /\ last.outcome = "ok" /\ last.reset
  /\ Cardinality(used_before) >= 2
  /\ used_before \ SetOf(LastPool) # {}

(***************************************************************************)
(* Properties of the selector called on its own (SpecSel).                 *)
(***************************************************************************)
\* C4: a selector call on a non-empty values list, whatever used_values
\* holds, returns a value, and that value is a member of the values list.
C4_ReturnsPoolMember ==
  (sel_last.outcome # "none" /\ sel_values # << >>)
    => (sel_last.outcome = "ok" /\ sel_last.ret \in SetOf(sel_values))

\* a call that found every pool value used, among used values foreign to
\* the pool
C4_Witness ==
  /\ sel_last.outcome = "ok"
  /\ SetOf(sel_values) \subseteq sel_used_before
  /\ sel_used_before \ SetOf(sel_values) # {}

\* C9: a selector call adds nothing to used_values; it leaves used_values
\* as it was when some pool value was not in it, and leaves it empty when
\* every pool value was in it.
C9_SelectorFrame ==
  sel_last.outcome # "none"
    => /\ sel_used \subseteq sel_used_before
       /\ sel_last.ret \notin sel_used \ sel_used_before
       /\ IF SetOf(sel_values) \ sel_used_before # {}
            THEN sel_used = sel_used_before
            ELSE sel_used = {}

\* a call that left a non-empty used_values untouched
C9_Witness ==
  /\ sel_last.outcome = "ok"
  /\ sel_used_before # {}
  /\ SetOf(sel_values) \ sel_used_before # {}
  /\ SetOf(sel_values) \cap sel_used_before # {}
  /\ sel_used = sel_used_before

(***************************************************************************)
(* Properties of the JSON helpers (SpecLoad).                              *)
(***************************************************************************)
IsRecords(data) == \A i \in 1..Len(data) : data[i].mapping

ExactKeys(data, required) ==
  \A i \in 1..Len(data) : data[i].mapping /\ data[i].keys = SetOf(required)

\* C7: validate_json_structure accepts a list of records exactly when the
\* key set of every record equals the required key set, and raises
\* ValueError otherwise; the empty list is accepted.
C7_ExactKeySet ==
  (load_last.fn = "validate_json_structure" /\ IsRecords(source.data))
    => /\ load_last.outcome \in {"ok", "ValueError"}
       /\ load_last.outcome = "ok" <=> ExactKeys(source.data, required_keys)
       /\ source.data = << >> => load_last.outcome = "ok"

\* a list rejected only for an extra key of its last record
C7_Witness ==
  /\ load_last.fn = "validate_json_structure"
  /\ load_last.outcome = "ValueError"
  /\ Len(source.data) >= 2
  /\ \A i \in 1..Len(source.data) :
        /\ source.data[i].mapping
        /\ SetOf(required_keys) \subseteq source.data[i].keys
  /\ ExactKeys(SubSeq(source.data, 1, Len(source.data) - 1), required_keys)

\* C8: load_json raises FileNotFoundError for a missing source, ValueError
\* for an undecodable one and ValueError for a decoded one that is
\* structurally invalid, and returns the decoded data only when it passed
\* the validation.
C8_LoadJsonOutcomes ==
  load_last.fn = "load_json"
    => /\ source.kind = "missing" => load_last.outcome = "FileNotFoundError"
       /\ source.kind = "undecodable" => load_last.outcome = "ValueError"
       /\ (source.kind = "json" /\ ~ExactKeys(source.data, required_keys))
            => load_last.outcome = "ValueError"
       /\ load_last.outcome = "returned"
            => /\ source.kind = "json"
               /\ ExactKeys(source.data, required_keys)
               /\ load_last.data = source.data

(***************************************************************************)
(* Properties of failing degree() calls (Spec).                            *)
(***************************************************************************)
\* C14: a degree() call that raises, for an unrecognized degree_type or for
\* an empty candidate sequence, leaves the used-set as it was before the
\* call.
C14_FailureKeepsUsedSet ==
  last.outcome \in {"ValueError", "IndexError"} => _used_degrees = used_before

(***************************************************************************)
(* Rounds of a run of same-argument calls (SpecRun).                       *)
(***************************************************************************)
\* the values returned by calls from+1 .. from+n of the run
Returned(from, n) == {rets[j] : j \in (from + 1)..(from + n)}

\* C13: with a pool of N distinct values and an empty used-set at the
\* start, calls kN+1 .. (k+1)N of the run return every pool value, each
\* once, for every k; and any 2N-1 consecutive calls return every pool
\* value.
C13_EpochPermutation ==
  LET N == Cardinality(SetOf(RunPool))
  IN  N >= 1 =>
        /\ \A k \in 0..MaxRun :
             (k + 1) * N <= Len(rets)
               => /\ Returned(k * N, N) = SetOf(RunPool)
                  /\ Distinct(SubSeq(rets, k * N + 1, (k + 1) * N))
        /\ \A p \in 0..MaxRun :
             p + 2 * N - 1 <= Len(rets)
               => Returned(p, 2 * N - 1) = SetOf(RunPool)

\* two full rounds of a pool of three values, the second beginning with the
\* value the first ended with
C13_Witness ==
  LET N == Cardinality(SetOf(RunPool))
  IN  N = 3 /\ Len(rets) = 2 * N /\ rets[N + 1] = rets[N]

(***************************************************************************)
(* Duplicate entries of the values list (SpecSel).                         *)
(***************************************************************************)
RECURSIVE Dedup(_)
\* the values list without its repeated entries, first occurrences kept
Dedup(values) ==
  IF values = << >> THEN << >>
  ELSE LET front == Dedup(SubSeq(values, 1, Len(values) - 1))
           value == values[Len(values)]
       IN  IF value \in SetOf(front) THEN front ELSE Append(front, value)

\* the selector named fn applied to a values list and a used set
AvailableOf(fn, values, used_values) ==
  IF fn = "_get_unique_value"
    THEN _get_unique_value_available(values, used_values)
    ELSE get_unique_value_available(values, used_values)

UsedOf(fn, values, used_values) ==
  IF fn = "_get_unique_value"
    THEN _get_unique_value_used(values, used_values)
    ELSE get_unique_value_used(values, used_values)

\* C11: a selector call on a values list chooses from the same set and
\* leaves used_values the same as a call on the deduplicated list would;
\* the pool is exhausted (used_values cleared, every pool value eligible)
\* exactly when as many pool values are used as the list has distinct
\* values.
C11_DuplicatesAreOneCandidate ==
  sel_last.outcome # "none" =>
    LET deduplicated == Dedup(sel_values)
        used_of_pool == Cardinality(sel_used_before \cap SetOf(sel_values))
    IN  /\ sel_avail = AvailableOf(sel_last.fn, deduplicated, sel_used_before)
        /\ sel_used = UsedOf(sel_last.fn, deduplicated, sel_used_before)
        /\ IF used_of_pool = Len(deduplicated)
             THEN sel_used = {} /\ sel_avail = SetOf(sel_values)
             ELSE sel_used = sel_used_before /\ sel_avail \cap sel_used_before = {}

\* a call on a list with a repeated entry whose distinct values were all
\* used, fewer of them than the list has entries
C11_Witness ==
  /\ sel_last.outcome = "ok"
  /\ Len(Dedup(sel_values)) >= 2
  /\ Len(Dedup(sel_values)) < Len(sel_values)
  /\ SetOf(sel_values) \subseteq sel_used_before

(***************************************************************************)
(* Properties of two instances (SpecTwo).                                  *)
(***************************************************************************)
\* C12: the used-set of every instance is empty at construction, and a
\* degree() call on one instance leaves the used-set of every other
\* instance as it was.
C12_InstancesIndependent ==
  /\ two_last.outcome = "none" => \A i \in Instances : UsedSetOf(i) = {}
  /\ two_last.outcome # "none"
       => \A j \in Instances \ {two_last.instance} : UsedSetOf(j) = two_before[j]

\* a successful call on an instance whose used-set differs from the
\* non-empty used-set of another instance
C12_Witness ==
  /\ two_last.outcome = "ok"
  /\ \E j \in Instances \ {two_last.instance} :
       /\ UsedSetOf(j) # {}
       /\ UsedSetOf(two_last.instance) \ UsedSetOf(j) # {}
       /\ UsedSetOf(j) \ UsedSetOf(two_last.instance) # {}

====
